---- MODULE Spec2Model ----
(***************************************************************************)
(* Emoji Cipher (src/App.tsx): the seeded generator mulberry32, the        *)
(* Fisher-Yates seededShuffle, buildMapping / reverseMap, and the App      *)
(* component's handleEncode / handleDecode.                                *)
(*                                                                         *)
(* Numbers.  A JavaScript number holding an integer is the pair <<hi, lo>> *)
(* of value hi * 2^16 + lo with lo in 0..65535 and hi any integer, so that *)
(* the values beyond 31 bits that the code produces are exact.  The 32-bit *)
(* operators (^, |, >>>, Math.imul) convert their operands with ToInt32 /  *)
(* ToUint32 exactly as the language does.                                  *)
(*                                                                         *)
(* Strings.  A plain text is a sequence of characters (one-character       *)
(* strings).  An encoded text is a sequence of pieces: a piece is either   *)
(* one whitespace character or a non-empty chunk holding no whitespace     *)
(* (an emoji, a word); adjacent chunks concatenate.  Object keys are       *)
(* strings.                                                                *)
(***************************************************************************)
EXTENDS Integers, Sequences, FiniteSets, TLC

VARIABLES
    \* ---- the generator returned by mulberry32 (its closure) ----
    rngA,         \* the captured variable `a` of the closure
    rngOut,       \* numerator n of the last value n / 2^32 returned, or NoValue
    rngDraws,     \* number of calls of the closure so far
    rngSeed,      \* the argument mulberry32 was called with
    \* ---- seededShuffle ----
    shArg,        \* the array passed as `arr`
    shSeed,       \* the seed passed
    shArr,        \* the array object passed, as it is after the call
    shRet,        \* the array returned
    shTrace,      \* the iterations of the while loop, in order: [m, i, r]
    shDone,       \* whether the call has returned
    \* ---- the module ./constants ----
    chars,        \* the alphabet: an array of one-character strings
    emojiPool,    \* the pool: an array of emoji strings
    \* ---- the memoised pair of the App component ----
    mapping,          \* useMemo(() => buildMapping(), [])
    reversedMapping,  \* useMemo(() => reverseMap(mapping), [mapping])
    builds,           \* number of times the pair was built (mounts)
    firstMapping,     \* the forward mapping of the first build
    \* ---- the App component's state ----
    plainText,        \* useState('hello world'): a sequence of characters
    encodedText,      \* useState(''): a sequence of pieces
    encodedFrom,      \* <<t>>: handleEncode made encodedText from plain text
                      \* t; <<>> once encodedText was edited
    lastOp,           \* the last operation: mount, edit, encode, decode
    copyStatus,       \* useState(''): the message shown after a copy
    showMapping,      \* useState(false): whether the mapping panel is shown
    isAboutModalOpen, \* useState(false): whether the About modal is shown
    \* ---- the useTheme hook and the browser's localStorage ----
    theme,            \* useState<Theme>(...): the active theme
    storedTheme,      \* the item 'emoji-cipher-theme': <<>> (none) or <<value>>
    readItem,         \* what getItem gave when the hook was last initialised
    themeOp,          \* the last operation of the hook: load, select
    lastSelected,     \* <<key>> of the theme last selected, or <<>>
    selectionStored   \* whether the item still is what the last selection
                      \* wrote

rngVars == <<rngA, rngOut, rngDraws, rngSeed>>
shVars == <<shArg, shSeed, shArr, shRet, shTrace, shDone>>
constVars == <<chars, emojiPool>>
mapVars == <<mapping, reversedMapping, builds, firstMapping>>
appVars == <<plainText, encodedText, encodedFrom, lastOp>>
uiVars == <<copyStatus, showMapping, isAboutModalOpen>>
themeVars == <<theme, storedTheme, readItem, themeOp, lastSelected, selectionStored>>
vars == <<rngVars, shVars, constVars, mapVars, appVars, uiVars, themeVars>>

\* "no number": the closure does not exist yet, or has returned nothing
NoValue == <<0, -1>>

\* ------------------------------------------------------------------------
\* Bounds of the model
\* ------------------------------------------------------------------------
MaxDraws == 6
MaxArr == 4
MaxChars == 3
MaxPool == 3
MaxBuilds == 2
MaxPlainLen == 2
MaxEncodedLen == 2

\* ------------------------------------------------------------------------
\* JavaScript numbers and 32-bit operators
\* ------------------------------------------------------------------------
Half == 256 * 256

Num(hi, lo) == <<hi, lo>>

\* x + y on numbers (exact: every value met is far below 2^53)
NumAdd(x, y) ==
    LET s == x[2] + y[2]
    IN  <<x[1] + y[1] + (s \div Half), s % Half>>

NumNonNegative(x) == x[1] >= 0

\* x < 2^32
NumBelow2p32(x) == x[1] < Half

ToUint32(x) == <<x[1] % Half, x[2]>>

ToInt32(x) == <<((x[1] + 32768) % Half) - 32768, x[2]>>

Pow2(n) == IF n = 0 THEN 1 ELSE
           IF n = 7 THEN 128 ELSE
           IF n = 14 THEN 16384 ELSE
           IF n = 15 THEN 32768 ELSE 65536

RECURSIVE BitXor16(_, _)
BitXor16(p, q) ==
    IF p = 0 THEN q
    ELSE IF q = 0 THEN p
    ELSE ((p + q) % 2) + 2 * BitXor16(p \div 2, q \div 2)

RECURSIVE BitOr16(_, _)
BitOr16(p, q) ==
    IF p = 0 THEN q
    ELSE IF q = 0 THEN p
    ELSE (IF (p % 2) + (q % 2) > 0 THEN 1 ELSE 0) + 2 * BitOr16(p \div 2, q \div 2)

\* x ^ y
Xor(x, y) ==
    LET ux == ToUint32(x)
        uy == ToUint32(y)
    IN  ToInt32(<<BitXor16(ux[1], uy[1]), BitXor16(ux[2], uy[2])>>)

\* x | y
Or(x, y) ==
    LET ux == ToUint32(x)
        uy == ToUint32(y)
    IN  ToInt32(<<BitOr16(ux[1], uy[1]), BitOr16(ux[2], uy[2])>>)

\* x >>> n, for the shift counts of the code (0, 7, 14, 15)
UShr(x, n) ==
    LET u == ToUint32(x)
        d == Pow2(n)
    IN  <<u[1] \div d, (u[1] % d) * (Half \div d) + (u[2] \div d)>>

\* the full product of two 16-bit values, as <<high 16 bits, low 16 bits>>
Mul16(p, q) ==
    LET A == (p \div 256) * q
        B == (p % 256) * q
        s == (A % 256) * 256 + B
    IN  <<(A \div 256) + (s \div Half), s % Half>>

\* Math.imul(x, y)
Imul(x, y) ==
    LET ux == ToUint32(x)
        uy == ToUint32(y)
        ll == Mul16(ux[2], uy[2])
        hl == Mul16(ux[1], uy[2])
        lh == Mul16(ux[2], uy[1])
    IN  ToInt32(<<(hl[2] + lh[2] + ll[1]) % Half, ll[2]>>)

\* ------------------------------------------------------------------------
\* mulberry32
\* ------------------------------------------------------------------------
\* 0x6D2B79F5
Increment == Num(27947, 31221)

\* a generator whose state lives outside the closure and is not reset by
\* a new call of mulberry32
mulberry32Shared(a) == IF rngA = NoValue THEN a ELSE rngA

\* mulberry32(a): the closure created, given by its captured variable
mulberry32(a) == a

\* the advance with the sum reduced to 32 bits: a = a + 0x6D2B79F5 >>> 0
AdvanceWrapped(a) == ToUint32(NumAdd(a, Increment))

\* let t = a += 0x6D2B79F5
Advance(a) == NumAdd(a, Increment)

\* the last line without its >>> 0: (t ^ t >>> 14) / 4294967296
FinishSigned(t) == Xor(t, UShr(t, 14))

\* ((t ^ t >>> 14) >>> 0), the numerator of the value returned
Finish(t) == UShr(Xor(t, UShr(t, 14)), 0)

\* one call of the closure: the new captured variable and the numerator n
\* of the value n / 4294967296 it returns
random(a) ==
    LET a1 == Advance(a)
        t1 == Imul(Xor(a1, UShr(a1, 15)), Or(a1, Num(0, 1)))
        t2 == Xor(t1, NumAdd(t1, Imul(Xor(t1, UShr(t1, 7)), Or(t1, Num(0, 61)))))
    IN  [a |-> a1, out |-> Finish(t2)]

\* Seeds tried: zero, the demo's 12345, small, 2^31 - 1, 2^31, 2^32 - 1,
\* negative ones, and values of more than 32 bits
Seeds ==
    { Num(0, 0), Num(0, 1), Num(0, 12345), Num(0, 65535), Num(1, 0),
      Num(32767, 65535), Num(32768, 0), Num(65535, 65535), Num(37589, 34315),
      Num(-1, 65535), Num(-1, 0), Num(-32768, 0), Num(-12345, 777),
      Num(65536, 0), Num(123456, 4242), Num(56789, 1) }

\* a value of -2^31 .. 2^32 - 1: a 32-bit integer, read signed or unsigned
Is32Bit(x) == x[1] >= -32768 /\ x[1] < Half

\* ------------------------------------------------------------------------
\* seededShuffle
\* ------------------------------------------------------------------------
Undefined == "undefined"

\* a[i] (arrays are 0-based in the code, sequences 1-based here)
ArrGet(a, i) == IF i >= 0 /\ i < Len(a) THEN a[i + 1] ELSE Undefined

\* a[i] = v.  The loop only writes at 0 <= i <= m < a.length.
ArrSet(a, i, v) == IF i >= 0 /\ i < Len(a) THEN [a EXCEPT ![i + 1] = v] ELSE a

\* Math.floor((n / 4294967296) * m), for a small non-negative integer m
FloorMul(n, m) == (n[1] * m + ((n[2] * m) \div Half)) \div Half

\* const i = Math.floor(random() * m--): m is read before it is decremented
SwapIndexPreDecrement(n, m) == FloorMul(n, m - 1)

SwapIndex(n, m) == FloorMul(n, m)

\* the swap written without the temporary: a[m] = a[i]; a[i] = a[m]
SwapNoTemp(a, m, i) == ArrSet(a, m, ArrGet(a, i))

\* const t = a[m]; a[m] = a[i]; a[i] = t
Swap(a, m, i) ==
    LET t == ArrGet(a, m)
    IN  ArrSet(ArrSet(a, m, ArrGet(a, i)), i, t)

\* while (m) { ... }: a is the copy, g the closure's captured variable
RECURSIVE ShuffleLoop(_, _, _, _)
ShuffleLoop(a, m, g, trace) ==
    IF m = 0
    THEN [a |-> a, g |-> g, trace |-> trace]
    ELSE LET r == random(g)
             i == SwapIndex(r.out, m)
             m1 == m - 1
         IN  ShuffleLoop(Swap(a, m1, i), m1, r.a,
                         Append(trace, [m |-> m1, i |-> i, r |-> r.out]))

\* seededShuffle(arr, seed): the array returned (ret), the argument array as
\* it is after the call (arr: the loop works on the copy [...arr]), the
\* closure's captured variable at the end (g) and the loop's iterations
seededShuffle(arr, sd) ==
    LET a == arr
        l == ShuffleLoop(a, Len(a), mulberry32(sd), <<>>)
    IN  [ret |-> l.a, arr |-> arr, g |-> l.g, trace |-> l.trace]

\* ------------------------------------------------------------------------
\* Objects used as dictionaries: { [key: string]: string }
\* ------------------------------------------------------------------------
\* An object is the sequence of its own properties <<key, value>> in the
\* order the language enumerates them (for ... in): the keys that are array
\* indices first, ascending, then the other keys in the order they were
\* created.  Every object literal {} inherits from Object.prototype.

Digits == <<"0", "1", "2", "3", "4", "5", "6", "7", "8", "9">>

\* whether key k is an array index (a canonical numeric string); the keys of
\* the model that are numeric are the one-digit ones
IsArrayIndex(k) == \E d \in 1..Len(Digits) : Digits[d] = k

IndexValue(k) == (CHOOSE d \in 1..Len(Digits) : Digits[d] = k) - 1

EmptyObject == <<>>

OwnKeys(o) == [j \in 1..Len(o) |-> o[j][1]]

HasOwn(o, k) == \E j \in 1..Len(o) : o[j][1] = k

\* the properties every object inherits from Object.prototype, with the
\* string each yields when an array holding it is joined
\* (as a sequence of characters)
NativeCode == <<"{", " ", "[", "n", "a", "t", "i", "v", "e", " ", "c", "o", "d", "e", "]", " ", "}">>

FunctionText(name) ==
    <<"f", "u", "n", "c", "t", "i", "o", "n", " ">> \o name \o <<"(", ")", " ">> \o NativeCode

ObjectPrototype ==
    [ constructor    |-> FunctionText(<<"O", "b", "j", "e", "c", "t">>),
      toString       |-> FunctionText(<<"t", "o", "S", "t", "r", "i", "n", "g">>),
      valueOf        |-> FunctionText(<<"v", "a", "l", "u", "e", "O", "f">>),
      hasOwnProperty |-> FunctionText(<<"h", "a", "s", "O", "w", "n", "P", "r", "o", "p", "e", "r", "t", "y">>),
      __proto__      |-> <<"[", "o", "b", "j", "e", "c", "t", " ", "O", "b", "j", "e", "c", "t", "]">> ]

\* the value found under an inherited key (a function, an object), named by
\* its key
Inherited(k) == "inherited " \o k

IsInherited(v) == v \in {Inherited(k) : k \in DOMAIN ObjectPrototype}

InheritedText(v) ==
    ObjectPrototype[CHOOSE k \in DOMAIN ObjectPrototype : Inherited(k) = v]

\* o[k]
ObjGet(o, k) ==
    IF HasOwn(o, k) THEN o[CHOOSE j \in 1..Len(o) : o[j][1] = k][2]
    ELSE IF k \in DOMAIN ObjectPrototype THEN Inherited(k)
    ELSE Undefined

\* number of own keys that come before a new key k in enumeration order
KeysBefore(o, k) ==
    IF IsArrayIndex(k)
    THEN Cardinality({j \in 1..Len(o) :
                         IsArrayIndex(o[j][1]) /\ IndexValue(o[j][1]) < IndexValue(k)})
    ELSE Len(o)

\* o[k] = v, for a string v.  Assigning a string to __proto__ changes
\* nothing.
ObjSet(o, k, v) ==
    IF k = "__proto__" THEN o
    ELSE IF HasOwn(o, k)
    THEN [j \in 1..Len(o) |-> IF o[j][1] = k THEN <<k, v>> ELSE o[j]]
    ELSE LET n == KeysBefore(o, k)
         IN  SubSeq(o, 1, n) \o <<(<<k, v>>)>> \o SubSeq(o, n + 1, Len(o))

\* ------------------------------------------------------------------------
\* buildMapping and reverseMap
\* ------------------------------------------------------------------------
\* const seed = 12345
seed == Num(0, 12345)

\* i % pool.length with the modulus one short
PoolIndexOffByOne(i, n) == IF n <= 1 THEN 0 ELSE i % (n - 1)

\* the index clamped to the pool instead of wrapped: Math.min(i, pool.length - 1)
PoolIndexClamped(i, n) == IF i < n THEN i ELSE n - 1

\* i % pool.length
PoolIndex(i, n) == i % n

\* for (let i = 0; i < chars.length; i++) map[chars[i]] = pool[i % pool.length]
RECURSIVE MapLoop(_, _, _)
MapLoop(map, pool, i) ==
    IF i >= Len(chars) THEN map
    ELSE LET v == IF Len(pool) = 0 THEN Undefined
                  ELSE ArrGet(pool, PoolIndex(i, Len(pool)))
         IN  MapLoop(ObjSet(map, chars[i + 1], v), pool, i + 1)

\* buildMapping(): the object returned (map) and the captured variable of
\* the generator it created, at the end (g)
buildMappingCall ==
    LET sh == seededShuffle(emojiPool, seed)
    IN  [map |-> MapLoop(EmptyObject, sh.ret, 0), g |-> sh.g, pool |-> sh.ret]

buildMapping == buildMappingCall.map

\* for (const k in map) rev[map[k]] = k
RECURSIVE RevLoop(_, _, _)
RevLoop(rev, map, j) ==
    IF j > Len(map) THEN rev
    ELSE RevLoop(ObjSet(rev, ObjGet(map, OwnKeys(map)[j]), OwnKeys(map)[j]), map, j + 1)

reverseMap(map) == RevLoop(EmptyObject, map, 1)

MappingIdle ==
    /\ chars = <<>>
    /\ emojiPool = <<>>
    /\ mapping = EmptyObject
    /\ reversedMapping = EmptyObject
    /\ builds = 0
    /\ firstMapping = EmptyObject

AppIdle ==
    /\ plainText = <<>>
    /\ encodedText = <<>>
    /\ encodedFrom = <<>>
    /\ lastOp = "none"

UiIdle ==
    /\ copyStatus = ""
    /\ showMapping = FALSE
    /\ isAboutModalOpen = FALSE

\* the hook is not in use
NoTheme == [key |-> "", name |-> ""]

ThemeIdle ==
    /\ theme = NoTheme
    /\ storedTheme = <<>>
    /\ readItem = <<>>
    /\ themeOp = "none"
    /\ lastSelected = <<>>
    /\ selectionStored = FALSE

\* ------------------------------------------------------------------------
\* handleEncode and handleDecode
\* ------------------------------------------------------------------------
\* the glyph for a character that has no mapping
Placeholder == ":question:"

\* !v, for the values met: undefined and the empty string are falsy
Falsy(v) == v = Undefined \/ v = ""

\* String.prototype.toLowerCase, on the characters of the model
LowerChar(c) ==
    IF c = "A" THEN "a"
    ELSE IF c = "B" THEN "b"
    ELSE IF c = "Z" THEN "z"
    ELSE c

\* the text encoded as typed: const textToEncode = plainText
ToLowerCaseOmitted(t) == t

toLowerCase(t) == [j \in 1..Len(t) |-> LowerChar(t[j])]

\* mapping[char] without the fallback
EncodeCharNoFallback(c) ==
    LET v == ObjGet(mapping, c)
    IN  IF v = Undefined THEN "" ELSE v

\* mapping[char] || '❓'
EncodeChar(c) ==
    LET v == ObjGet(mapping, c)
    IN  IF Falsy(v) THEN Placeholder ELSE v

\* tokens.join('')
RECURSIVE JoinNoSeparator(_)
JoinNoSeparator(tokens) ==
    IF tokens = <<>> THEN <<>>
    ELSE <<Head(tokens)>> \o JoinNoSeparator(Tail(tokens))

\* tokens.join(' '), as pieces
RECURSIVE JoinSpace(_)
JoinSpace(tokens) ==
    IF tokens = <<>> THEN <<>>
    ELSE IF Len(tokens) = 1 THEN <<tokens[1]>>
    ELSE <<Head(tokens), " ">> \o JoinSpace(Tail(tokens))

\* [...textToEncode].map(char => mapping[char] || '❓').join(' ')
EncodeOutput(textToEncode) ==
    JoinSpace([j \in 1..Len(textToEncode) |-> EncodeChar(textToEncode[j])])

Whitespace == {" ", "\n"}

IsWs(p) == p \in Whitespace

\* String.prototype.trim
RECURSIVE TrimStart(_)
TrimStart(e) ==
    IF e # <<>> /\ IsWs(Head(e)) THEN TrimStart(Tail(e)) ELSE e

RECURSIVE TrimEnd(_)
TrimEnd(e) ==
    IF e # <<>> /\ IsWs(e[Len(e)]) THEN TrimEnd(SubSeq(e, 1, Len(e) - 1)) ELSE e

Trim(e) == TrimEnd(TrimStart(e))

\* split(/\s+/): cur is the token being read, inWs whether the last piece
\* read was whitespace
RECURSIVE SplitLoop(_, _, _, _)
SplitLoop(e, tokens, cur, inWs) ==
    IF e = <<>> THEN Append(tokens, cur)
    ELSE IF IsWs(Head(e))
    THEN SplitLoop(Tail(e), IF inWs THEN tokens ELSE Append(tokens, cur), "", TRUE)
    ELSE SplitLoop(Tail(e), tokens, cur \o Head(e), FALSE)

Split(e) == SplitLoop(e, <<>>, "", FALSE)

\* reversedMapping[token] || '?'
DecodeToken(token) ==
    LET v == ObjGet(reversedMapping, token)
    IN  IF Falsy(v) THEN "?" ELSE v

\* the characters an element contributes to join(''): a string is itself
\* (the values of reversedMapping are one character long), an inherited
\* function or object its string conversion
JoinChars(v) ==
    IF IsInherited(v) THEN InheritedText(v)
    ELSE IF v = "" THEN <<>>
    ELSE <<v>>

RECURSIVE Concat(_)
Concat(parts) ==
    IF parts = <<>> THEN <<>> ELSE Head(parts) \o Concat(Tail(parts))

\* tokens.map(token => reversedMapping[token] || '?').join('')
DecodeOutput(e) ==
    LET tokens == Split(Trim(e))
    IN  Concat([j \in 1..Len(tokens) |-> JoinChars(DecodeToken(tokens[j]))])

\* ------------------------------------------------------------------------
\* Specification of the generator alone
\* ------------------------------------------------------------------------
ShuffleIdle ==
    /\ shArg = <<>>
    /\ shSeed = Num(0, 0)
    /\ shArr = <<>>
    /\ shRet = <<>>
    /\ shTrace = <<>>
    /\ shDone = FALSE

PrngInit ==
    /\ \E s \in Seeds :
         /\ rngSeed = s
         /\ rngA = mulberry32(s)
    /\ rngOut = NoValue
    /\ rngDraws = 0
    /\ ShuffleIdle
    /\ MappingIdle
    /\ AppIdle
    /\ UiIdle
    /\ ThemeIdle

\* one call of the closure
Draw ==
    /\ rngDraws < MaxDraws
    /\ \E r \in {random(rngA)} :
           /\ rngA' = r.a
           /\ rngOut' = r.out
    /\ rngDraws' = rngDraws + 1
    /\ UNCHANGED <<rngSeed, shVars, constVars, mapVars, appVars, uiVars, themeVars>>

PrngNext == Draw

SpecPrng == PrngInit /\ [][PrngNext]_vars

\* ------------------------------------------------------------------------
\* Specification of seededShuffle alone
\* ------------------------------------------------------------------------
EmojiUniverse == {":apple:", ":banana:", ":grape:", ":melon:"}

ShuffleSeeds ==
    { Num(0, 0), Num(0, 12345), Num(65535, 65535), Num(-1, 65535),
      Num(37589, 34315), Num(123456, 4242) }

RECURSIVE SeqsUpTo(_, _)
SeqsUpTo(S, n) ==
    IF n = 0 THEN {<<>>}
    ELSE LET shorter == SeqsUpTo(S, n - 1)
         IN  shorter \cup {Append(q, x) : q \in {p \in shorter : Len(p) = n - 1}, x \in S}

ShuffleInit ==
    /\ shArg \in SeqsUpTo(EmojiUniverse, MaxArr)
    /\ shSeed \in ShuffleSeeds
    /\ shArr = shArg
    /\ shRet = <<>>
    /\ shTrace = <<>>
    /\ shDone = FALSE
    /\ rngSeed = shSeed
    /\ rngA = NoValue
    /\ rngOut = NoValue
    /\ rngDraws = 0
    /\ MappingIdle
    /\ AppIdle
    /\ UiIdle
    /\ ThemeIdle

\* the call seededShuffle(shArg, shSeed)
Shuffle ==
    /\ ~shDone
    /\ \E r \in {seededShuffle(shArg, shSeed)} :
           /\ shArr' = r.arr
           /\ shRet' = r.ret
           /\ shTrace' = r.trace
           /\ rngA' = r.g
           /\ rngDraws' = Len(r.trace)
           /\ rngOut' = IF r.trace = <<>> THEN NoValue ELSE r.trace[Len(r.trace)].r
    /\ shDone' = TRUE
    /\ UNCHANGED <<shArg, shSeed, rngSeed, constVars, mapVars, appVars, uiVars, themeVars>>

ShuffleNext == Shuffle

SpecShuffle == ShuffleInit /\ [][ShuffleNext]_vars

\* ------------------------------------------------------------------------
\* Specification of the mapping builder: the module constants are drawn,
\* then the memoised pair is built, once per mount of the component
\* ------------------------------------------------------------------------
AlphabetUniverse == {"a", "b", "1", " "}

PoolUniverse == {":apple:", ":banana:", ":grape:"}

IsInjectiveSeq(q) == \A j, k \in 1..Len(q) : q[j] = q[k] => j = k

\* the alphabets: distinct characters, in any order
CharsChoices ==
    {q \in SeqsUpTo(AlphabetUniverse, MaxChars) : Len(q) >= 1 /\ IsInjectiveSeq(q)}

\* the pools: non-empty, entries possibly repeated
PoolChoices == {q \in SeqsUpTo(PoolUniverse, MaxPool) : Len(q) >= 1}

BuildInit ==
    /\ chars \in CharsChoices
    /\ emojiPool \in PoolChoices
    /\ mapping = EmptyObject
    /\ reversedMapping = EmptyObject
    /\ builds = 0
    /\ firstMapping = EmptyObject
    /\ rngSeed = seed
    /\ rngA = NoValue
    /\ rngOut = NoValue
    /\ rngDraws = 0
    /\ ShuffleIdle
    /\ AppIdle
    /\ UiIdle
    /\ ThemeIdle

\* the component mounts: both useMemo callbacks run
Build ==
    /\ builds < MaxBuilds
    /\ \E b \in {buildMappingCall} :
           /\ mapping' = b.map
           /\ reversedMapping' = reverseMap(b.map)
           /\ firstMapping' = IF builds = 0 THEN b.map ELSE firstMapping
           /\ rngA' = b.g
           /\ rngDraws' = Len(emojiPool)
    /\ builds' = builds + 1
    /\ UNCHANGED <<rngOut, rngSeed, shVars, constVars, appVars, uiVars, themeVars>>

BuildNext == Build

SpecBuild == BuildInit /\ [][BuildNext]_vars

\* ------------------------------------------------------------------------
\* The themes and the useTheme hook
\* ------------------------------------------------------------------------
\* the list of themes; of a theme the model keeps the key and the name
themes ==
    << [key |-> "dark_purple", name |-> "Purple"],
       [key |-> "forest_green", name |-> "Green"],
       [key |-> "light_blue", name |-> "Light Blue"],
       [key |-> "sunset_orange", name |-> "Sunset"],
       [key |-> "islamic_green", name |-> "Islamic"] >>

\* localStorage.getItem threw
Thrown == <<"thrown", "SecurityError">>

\* themes.find(t => t.key === savedThemeKey): <<t>> for the first theme
\* whose key is the item read, <<>> (undefined) when there is none
find(item) ==
    LET hits == {j \in 1..Len(themes) : item = <<themes[j].key>>}
    IN  IF hits = {} THEN <<>>
        ELSE <<themes[CHOOSE j \in hits : \A k \in hits : j <= k]>>

\* the initializer without `|| themes[0]`
InitialThemeNoFallback(read) ==
    IF read = Thrown THEN themes[1]
    ELSE IF find(read) = <<>> THEN NoTheme ELSE find(read)[1]

\* the initializer of useState<Theme>: find(...) || themes[0], and themes[0]
\* from the catch block
InitialTheme(read) ==
    IF read = Thrown THEN themes[1]
    ELSE IF find(read) = <<>> THEN themes[1] ELSE find(read)[1]

\* the effect: localStorage.setItem('emoji-cipher-theme', theme.key), an
\* exception being caught and logged
StoreTheme(t, item, ok) == IF ok THEN <<t.key>> ELSE item

\* the hook after a page load that found `item` in localStorage: the
\* initializer has run (getItem gave `read`), then the effect
ThemeLoaded(item, read, ok) ==
    /\ readItem = read
    /\ theme = InitialTheme(read)
    /\ storedTheme = StoreTheme(InitialTheme(read), item, ok)
    /\ themeOp = "load"
    /\ lastSelected = <<>>
    /\ selectionStored = FALSE

\* setTheme(t) and the effect that follows the render; React skips the
\* render, and with it the effect, when t is the active theme
setTheme(t, ok) ==
    /\ theme' = t
    /\ storedTheme' = IF t = theme THEN storedTheme ELSE StoreTheme(t, storedTheme, ok)
    /\ themeOp' = "select"
    /\ lastSelected' = <<t.key>>
    /\ selectionStored' = (storedTheme' = <<t.key>>)
    /\ UNCHANGED readItem
    /\ UNCHANGED <<rngVars, shVars, constVars, mapVars, appVars, uiVars>>

\* a page load: the hook is initialised again
useTheme(read, ok) ==
    /\ readItem' = read
    /\ theme' = InitialTheme(read)
    /\ storedTheme' = StoreTheme(InitialTheme(read), storedTheme, ok)
    /\ themeOp' = "load"
    /\ selectionStored' = (selectionStored /\ storedTheme' = storedTheme)
    /\ UNCHANGED lastSelected
    /\ UNCHANGED <<rngVars, shVars, constVars, mapVars, appVars, uiVars>>

\* the item is changed from outside the page (another tab, cleared data)
StorageEdited(item) ==
    /\ item # storedTheme
    /\ storedTheme' = item
    /\ selectionStored' = FALSE
    /\ UNCHANGED <<theme, readItem, themeOp, lastSelected>>
    /\ UNCHANGED <<rngVars, shVars, constVars, mapVars, appVars, uiVars>>

\* ------------------------------------------------------------------------
\* Specification of the useTheme hook alone
\* ------------------------------------------------------------------------
\* what the item 'emoji-cipher-theme' may hold: nothing, the key of a
\* theme, or a value that is the key of no theme
StoredItems ==
    {<<>>, <<"neon_pink">>} \cup {<<themes[j].key>> : j \in 1..Len(themes)}

ThemeInit ==
    /\ \E item \in StoredItems :
         \E read \in {item, Thrown} :
           \E ok \in BOOLEAN : ThemeLoaded(item, read, ok)
    /\ rngSeed = Num(0, 0)
    /\ rngA = NoValue
    /\ rngOut = NoValue
    /\ rngDraws = 0
    /\ ShuffleIdle
    /\ MappingIdle
    /\ AppIdle
    /\ UiIdle

ThemeNext ==
    \/ \E j \in 1..Len(themes) : \E ok \in BOOLEAN : setTheme(themes[j], ok)
    \/ \E read \in {storedTheme, Thrown} : \E ok \in BOOLEAN : useTheme(read, ok)
    \/ \E item \in StoredItems : StorageEdited(item)

SpecTheme == ThemeInit /\ [][ThemeNext]_vars

\* ------------------------------------------------------------------------
\* Specification of the App component
\* ------------------------------------------------------------------------
\* the alphabets and pools the component is run with
AppConfigs ==
    { [chars |-> <<"a", "b", "1", " ">>,
       pool  |-> <<":apple:", ":banana:", ":grape:", ":melon:">>],
      [chars |-> <<"a", "b", "1", " ">>,
       pool  |-> <<":apple:", ":banana:", ":grape:">>],
      [chars |-> <<"a", "1">>,
       pool  |-> <<":apple:", ":apple:", ":banana:">>] }

\* the characters typed into the plain text box
PlainChars == {"a", "1", " ", "A", "#"}

\* the pieces typed into the encoded text box
EncodedPieces == {":apple:", ":banana:", " ", "\n", "constructor"}

HelloWorld == <<"h", "e", "l", "l", "o", " ", "w", "o", "r", "l", "d">>

\* the component after it has mounted with the constants of cfg
Mounted(cfg) ==
    /\ chars = cfg.chars
    /\ emojiPool = cfg.pool
    /\ \E b \in {buildMappingCall} :
           /\ mapping = b.map
           /\ reversedMapping = reverseMap(b.map)
           /\ firstMapping = b.map
           /\ rngA = b.g
    /\ builds = 1
    /\ rngSeed = seed
    /\ rngOut = NoValue
    /\ rngDraws = Len(emojiPool)
    /\ ShuffleIdle
    /\ plainText = HelloWorld
    /\ encodedText = <<>>
    /\ encodedFrom = <<>>
    /\ lastOp = "mount"
    /\ UiIdle
    /\ ThemeLoaded(<<>>, <<>>, TRUE)

Init == \E cfg \in AppConfigs : Mounted(cfg)

\* no useMemo and a generator that outlives the call: every render builds
\* the pair again, from where the generator stands
AppFrameRebuilding ==
    /\ \E sh \in {ShuffleLoop(emojiPool, Len(emojiPool), rngA, <<>>)} :
           /\ mapping' = MapLoop(EmptyObject, sh.a, 0)
           /\ reversedMapping' = reverseMap(MapLoop(EmptyObject, sh.a, 0))
           /\ rngA' = sh.g
    /\ builds' = builds + 1
    /\ UNCHANGED <<rngOut, rngDraws, rngSeed, shVars, constVars, firstMapping>>

\* what no handler of the component touches: the memoised pair (its
\* dependency list is empty) and everything outside the component
AppFrame == UNCHANGED <<rngVars, shVars, constVars, mapVars>>

\* onChange of the plain text box: setPlainText(e.target.value)
ChangePlainText(c) ==
    /\ Len(plainText) < MaxPlainLen
    /\ plainText' = Append(plainText, c)
    /\ lastOp' = "edit"
    /\ UNCHANGED <<encodedText, encodedFrom>>
    /\ UNCHANGED <<uiVars, themeVars>>
    /\ AppFrame

\* the Clear button of the plain text box: setPlainText('')
ClearPlainText ==
    /\ plainText' = <<>>
    /\ lastOp' = "edit"
    /\ UNCHANGED <<encodedText, encodedFrom>>
    /\ UNCHANGED <<uiVars, themeVars>>
    /\ AppFrame

\* onChange of the encoded text box: setEncodedText(e.target.value)
ChangeEncodedText(p) ==
    /\ Len(encodedText) < MaxEncodedLen
    /\ encodedText' = Append(encodedText, p)
    /\ encodedFrom' = <<>>
    /\ lastOp' = "edit"
    /\ UNCHANGED plainText
    /\ UNCHANGED <<uiVars, themeVars>>
    /\ AppFrame

\* the Clear button of the encoded text box: setEncodedText('')
ClearEncodedText ==
    /\ encodedText' = <<>>
    /\ encodedFrom' = <<>>
    /\ lastOp' = "edit"
    /\ UNCHANGED plainText
    /\ UNCHANGED <<uiVars, themeVars>>
    /\ AppFrame

handleEncode ==
    /\ lastOp' = "encode"
    /\ encodedFrom' = <<plainText>>
    /\ IF plainText = <<>>
       THEN encodedText' = <<>>
       ELSE encodedText' = EncodeOutput(toLowerCase(plainText))
    /\ UNCHANGED plainText
    /\ UNCHANGED <<uiVars, themeVars>>
    /\ AppFrame

\* `if (!encodedText) return;`: the plain text left as it is
handleDecodeEarlyReturn ==
    /\ lastOp' = "decode"
    /\ IF encodedText = <<>>
       THEN UNCHANGED plainText
       ELSE plainText' = DecodeOutput(encodedText)
    /\ UNCHANGED <<encodedText, encodedFrom>>
    /\ UNCHANGED <<uiVars, themeVars>>
    /\ AppFrame

handleDecode ==
    /\ lastOp' = "decode"
    /\ IF encodedText = <<>>
       THEN plainText' = <<>>
       ELSE plainText' = DecodeOutput(encodedText)
    /\ UNCHANGED <<encodedText, encodedFrom>>
    /\ UNCHANGED <<uiVars, themeVars>>
    /\ AppFrame

Next ==
    \/ \E c \in PlainChars : ChangePlainText(c)
    \/ ClearPlainText
    \/ \E p \in EncodedPieces : ChangeEncodedText(p)
    \/ ClearEncodedText
    \/ handleEncode
    \/ handleDecode

Spec == Init /\ [][Next]_vars

\* ------------------------------------------------------------------------
\* Specification of the whole App component: the text handlers above, the
\* clipboard, the mapping panel, the theme buttons and the About modal
\* ------------------------------------------------------------------------
\* the texts the clipboard may hold when Paste is pressed
ClipboardPlain == {<<"a", "A">>, <<>>}

ClipboardEncoded == {<<" ", ":apple:", " ", " ", ":banana:">>, <<" ">>}

\* handlePaste(setPlainText): navigator.clipboard.readText() gave `text`
PastePlainText(text) ==
    /\ plainText' = text
    /\ lastOp' = "edit"
    /\ UNCHANGED <<encodedText, encodedFrom>>
    /\ UNCHANGED <<uiVars, themeVars>>
    /\ AppFrame

\* handlePaste(setEncodedText): navigator.clipboard.readText() gave `text`
PasteEncodedText(text) ==
    /\ encodedText' = text
    /\ encodedFrom' = <<>>
    /\ lastOp' = "edit"
    /\ UNCHANGED plainText
    /\ UNCHANGED <<uiVars, themeVars>>
    /\ AppFrame

\* handlePaste when readText() is rejected: console.error and alert
PasteFailed ==
    /\ UNCHANGED <<appVars, uiVars, themeVars>>
    /\ AppFrame

\* handleCopyToClipboard(encodedText, 'Emoji'): nothing for an empty text,
\* else the status set when writeText() settles
handleCopyToClipboard(ok) ==
    /\ copyStatus' = IF encodedText = <<>> THEN copyStatus
                     ELSE IF ok THEN "Emoji copied!" ELSE "Failed to copy."
    /\ UNCHANGED <<showMapping, isAboutModalOpen>>
    /\ UNCHANGED <<appVars, themeVars>>
    /\ AppFrame

\* a timer set by handleCopyToClipboard fires: setCopyStatus('')
CopyStatusTimeout ==
    /\ copyStatus # ""
    /\ copyStatus' = ""
    /\ UNCHANGED <<showMapping, isAboutModalOpen>>
    /\ UNCHANGED <<appVars, themeVars>>
    /\ AppFrame

\* the Show/Hide Mapping button: setShowMapping(!showMapping)
ToggleMapping ==
    /\ showMapping' = ~showMapping
    /\ UNCHANGED <<copyStatus, isAboutModalOpen>>
    /\ UNCHANGED <<appVars, themeVars>>
    /\ AppFrame

\* the About button: setAboutModalOpen(true)
OpenAbout ==
    /\ isAboutModalOpen' = TRUE
    /\ UNCHANGED <<copyStatus, showMapping>>
    /\ UNCHANGED <<appVars, themeVars>>
    /\ AppFrame

\* onClose of the modal, which is rendered only while it is open
CloseAbout ==
    /\ isAboutModalOpen
    /\ isAboutModalOpen' = FALSE
    /\ UNCHANGED <<copyStatus, showMapping>>
    /\ UNCHANGED <<appVars, themeVars>>
    /\ AppFrame

\* the characters and pieces typed in this specification
TypedChars == {"a", "#"}

TypedPieces == {":apple:", "constructor"}

NextApp ==
    \/ \E c \in TypedChars : ChangePlainText(c)
    \/ ClearPlainText
    \/ \E p \in TypedPieces : ChangeEncodedText(p)
    \/ ClearEncodedText
    \/ handleEncode
    \/ handleDecode
    \/ \E text \in ClipboardPlain : PastePlainText(text)
    \/ \E text \in ClipboardEncoded : PasteEncodedText(text)
    \/ PasteFailed
    \/ \E ok \in BOOLEAN : handleCopyToClipboard(ok)
    \/ CopyStatusTimeout
    \/ ToggleMapping
    \/ \E j \in 1..Len(themes) : setTheme(themes[j], TRUE)
    \/ OpenAbout
    \/ CloseAbout

\* an alphabet longer than the pool
WrappedConfig ==
    [chars |-> <<"a", "b", "1", " ">>, pool |-> <<":apple:", ":banana:", ":grape:">>]

AppInit == Mounted(WrappedConfig)

SpecApp == AppInit /\ [][NextApp]_vars

\* ------------------------------------------------------------------------
\* Properties of the generator (SpecPrng)
\* ------------------------------------------------------------------------
RECURSIVE NumTimes(_, _)
NumTimes(x, k) == IF k = 0 THEN Num(0, 0) ELSE NumAdd(NumTimes(x, k - 1), x)

\* C8. PRNG range: every value the generator returns is n / 2^32 with n an
\* integer of 0 .. 2^32 - 1, that is a value v with 0 <= v < 1, whatever
\* the seed and however many draws were made.
RandomInUnitInterval ==
    rngOut # NoValue =>
        /\ rngOut[1] \in 0..(Half - 1)
        /\ rngOut[2] \in 0..(Half - 1)
        /\ NumNonNegative(rngOut)
        /\ NumBelow2p32(rngOut)

\* a draw whose value is at least 1/2 (bit 31 of n set), after several draws
RandomUpperHalfDrawn ==
    /\ rngDraws >= 3
    /\ rngOut # NoValue
    /\ rngOut[1] >= 32768

RECURSIVE Count(_, _)
Count(a, x) ==
    IF a = <<>> THEN 0
    ELSE (IF Head(a) = x THEN 1 ELSE 0) + Count(Tail(a), x)

Elements(a) == {a[j] : j \in 1..Len(a)}

\* C7. Shuffle is a permutation: the array returned has the length of the
\* input and holds exactly its elements with their multiplicities, and the
\* input array is left as it was.
ShuffleIsPermutation ==
    shDone =>
        /\ Len(shRet) = Len(shArg)
        /\ \A x \in Elements(shArg) \cup Elements(shRet) :
               Count(shRet, x) = Count(shArg, x)
        /\ shArr = shArg

\* a shuffle of at least three elements, one of them repeated, that moved
\* something
ShuffleReordered ==
    /\ shDone
    /\ Len(shArg) >= 3
    /\ Cardinality(Elements(shArg)) < Len(shArg)
    /\ shRet # shArg

\* the loop of the specification: for m from length - 1 down to 1,
\* i = floor(r * (m + 1)), swap a[m] and a[i]; draws[k] is the k-th draw
RECURSIVE FisherYates(_, _, _, _)
FisherYates(a, m, draws, k) ==
    IF m < 1 THEN a
    ELSE LET i == FloorMul(draws[k], m + 1)
             b == [j \in 1..Len(a) |->
                      IF j = m + 1 THEN a[i + 1]
                      ELSE IF j = i + 1 THEN a[m + 1] ELSE a[j]]
         IN  FisherYates(b, m - 1, draws, k + 1)

\* C10. Shuffle matches the specified Fisher-Yates: the array returned is
\* the one the reference loop computes from the same draws in the same
\* order, and every swap index satisfies 0 <= i <= m < length.
ShuffleMatchesFisherYates ==
    shDone =>
        /\ shRet = FisherYates(shArg, Len(shArg) - 1,
                               [k \in 1..Len(shTrace) |-> shTrace[k].r], 1)
        /\ \A k \in 1..Len(shTrace) :
               /\ 0 <= shTrace[k].i
               /\ shTrace[k].i <= shTrace[k].m
               /\ shTrace[k].m < Len(shArg)

\* a shuffle of four distinct elements in which some swap moved an element
\* from below the current position (i < m)
ShuffleSwappedBelow ==
    /\ shDone
    /\ Len(shArg) = 4
    /\ Cardinality(Elements(shArg)) = 4
    /\ \E k \in 1..Len(shTrace) : shTrace[k].i < shTrace[k].m

\* ------------------------------------------------------------------------
\* Properties of the mapping builder (SpecBuild)
\* ------------------------------------------------------------------------
CharSet == {chars[j] : j \in 1..Len(chars)}

\* the emoji the forward mapping holds
ForwardValues == {ObjGet(mapping, c) : c \in CharSet}

\* no two alphabet characters share a pool entry
ForwardInjective ==
    \A c, d \in CharSet : ObjGet(mapping, c) = ObjGet(mapping, d) => c = d

\* C2. Bijection under no-wraparound: when the alphabet is no longer than
\* the pool and the pool's entries are distinct, the forward mapping is
\* injective and inverse[forward[c]] = c for every alphabet character c.
BijectionWithoutWraparound ==
    (builds >= 1 /\ Len(chars) <= Len(emojiPool) /\ IsInjectiveSeq(emojiPool)) =>
        /\ ForwardInjective
        /\ \A c \in CharSet : ObjGet(reversedMapping, ObjGet(mapping, c)) = c

\* an alphabet as long as the pool, a digit after a letter in it
BuiltWithoutWraparound ==
    /\ builds >= 1
    /\ Len(chars) = 3
    /\ Len(emojiPool) = 3
    /\ IsInjectiveSeq(emojiPool)
    /\ chars[1] = "a"
    /\ chars[3] = "1"

\* the last position of the alphabet whose character maps to emoji e
LastIndexOf(e) ==
    CHOOSE j \in 1..Len(chars) :
        /\ ObjGet(mapping, chars[j]) = e
        /\ \A k \in 1..Len(chars) : ObjGet(mapping, chars[k]) = e => k <= j

\* C3. Last writer wins in alphabet order: the inverse mapping sends every
\* emoji to the character that comes last in the alphabet among those that
\* map to it, whatever the alphabet holds (digits included).
LastWriterWinsInAlphabetOrder ==
    builds >= 1 =>
        \A e \in ForwardValues : ObjGet(reversedMapping, e) = chars[LastIndexOf(e)]

MappingWrapsAround ==
    builds >= 1 =>
        LET pool == seededShuffle(emojiPool, seed).ret
            n == Len(emojiPool)
        IN  /\ \A c \in CharSet : HasOwn(mapping, c)
            /\ Len(mapping) = Cardinality(CharSet)
            /\ \A i \in 0..(Len(chars) - 1) :
                   ObjGet(mapping, chars[i + 1]) = pool[(i % n) + 1]
            /\ \A i \in 0..(Len(chars) - 1) :
                   i + n < Len(chars) =>
                       ObjGet(mapping, chars[i + 1]) = ObjGet(mapping, chars[i + n + 1])

\* an alphabet of three characters built over a pool of two distinct emoji
BuiltWithWraparound ==
    /\ builds >= 1
    /\ Len(chars) = 3
    /\ Len(emojiPool) = 2
    /\ IsInjectiveSeq(emojiPool)

\* ------------------------------------------------------------------------
\* Properties of the App component (Spec)
\* ------------------------------------------------------------------------
\* t is made of alphabet characters only, in either letter case
AlphabetOnly(t) == \A j \in 1..Len(t) : LowerChar(t[j]) \in CharSet

\* C1. Round-trip: when no two alphabet characters share a pool entry and
\* t is made of alphabet characters only (any letter case), handleEncode on
\* t followed by handleDecode on the encoded text it produced leaves
\* plainText equal to lowercase(t).
RoundTrip ==
    (/\ lastOp = "decode"
     /\ encodedFrom # <<>>
     /\ ForwardInjective
     /\ AlphabetOnly(encodedFrom[1])) =>
        plainText = toLowerCase(encodedFrom[1])

\* a text of two alphabet characters, one in upper case, encoded and
\* decoded back
RoundTripDone ==
    /\ lastOp = "decode"
    /\ encodedFrom # <<>>
    /\ ForwardInjective
    /\ Len(encodedFrom[1]) = 2
    /\ AlphabetOnly(encodedFrom[1])
    /\ \E j \in 1..2 : encodedFrom[1][j] = "A"

\* the maximal runs of pieces that are not whitespace, each as one string
RECURSIVE RunsLoop(_, _, _)
RunsLoop(e, runs, cur) ==
    IF e = <<>> THEN (IF cur = "" THEN runs ELSE Append(runs, cur))
    ELSE IF IsWs(Head(e))
    THEN RunsLoop(Tail(e), IF cur = "" THEN runs ELSE Append(runs, cur), "")
    ELSE RunsLoop(Tail(e), runs, cur \o Head(e))

Runs(e) == RunsLoop(e, <<>>, "")

\* C5. Decode placeholder: every whitespace-separated token of the encoded
\* text that is not an emoji of the forward mapping contributes exactly the
\* character '?' to the text handleDecode produces (the other tokens
\* contribute the character the inverse mapping holds for them).
DecodePlaceholder ==
    (lastOp = "decode" /\ Runs(encodedText) # <<>>) =>
        plainText =
            LET tokens == Runs(encodedText)
            IN  [j \in 1..Len(tokens) |->
                    IF tokens[j] \in ForwardValues
                    THEN ObjGet(reversedMapping, tokens[j])
                    ELSE "?"]

\* C6. Encode placeholder: handleEncode emits the placeholder glyph as the
\* token of every character of the lower-cased input that is not in the
\* alphabet, and never for a character that is in the alphabet.
EncodePlaceholder ==
    (lastOp = "encode" /\ plainText # <<>>) =>
        LET low == toLowerCase(plainText)
        IN  /\ Len(encodedText) = 2 * Len(low) - 1
            /\ \A j \in 1..Len(low) :
                   /\ low[j] \notin CharSet => encodedText[2 * j - 1] = Placeholder
                   /\ low[j] \in CharSet => encodedText[2 * j - 1] # Placeholder

\* a typed text holding a character outside the alphabet next to one of
\* the alphabet, encoded
EncodedWithPlaceholder ==
    /\ lastOp = "encode"
    /\ Len(plainText) = 2
    /\ \E j \in 1..2 : plainText[j] = "#"
    /\ \E j \in 1..2 : LowerChar(plainText[j]) \in CharSet

\* C12. Encode format: for a non-empty plain text handleEncode produces one
\* token per character of lowercase(plainText), left to right, each the
\* forward mapping of that character or the placeholder, with exactly one
\* space between consecutive tokens and none at the ends; encoding
\* lowercase(t) gives the same output as encoding t.
EncodeFormat ==
    (lastOp = "encode" /\ plainText # <<>>) =>
        LET low == [j \in 1..Len(plainText) |-> LowerChar(plainText[j])]
        IN  /\ Len(encodedText) = 2 * Len(low) - 1
            /\ \A j \in 1..Len(low) :
                   encodedText[2 * j - 1] =
                       IF HasOwn(mapping, low[j])
                       THEN ObjGet(mapping, low[j])
                       ELSE Placeholder
            /\ \A j \in 1..(Len(low) - 1) : encodedText[2 * j] = " "
            /\ ~IsWs(encodedText[1])
            /\ ~IsWs(encodedText[Len(encodedText)])
            /\ encodedText = EncodeOutput(toLowerCase(low))

\* a typed text of two characters, an upper-case letter among them, encoded
EncodedUpperCase ==
    /\ lastOp = "encode"
    /\ Len(plainText) = 2
    /\ \E j \in 1..2 : plainText[j] = "A"
    /\ Len(encodedText) = 3

\* C13. Decode tokenization: for every encoded text (empty, whitespace
\* only, with leading, trailing or repeated whitespace) handleDecode
\* outputs one character per maximal run of non-whitespace characters, so
\* the decoded length is the number of such runs.
DecodeOneCharPerRun ==
    lastOp = "decode" => Len(plainText) = Len(Runs(encodedText))

\* ------------------------------------------------------------------------
\* Properties of the whole App component (SpecApp)
\* ------------------------------------------------------------------------
\* C14. Mapping immutability: the forward and inverse mappings are built
\* once when the app mounts and, after any sequence of user operations
\* (editing either text, encode, decode, clear, paste, copy, toggling the
\* mapping panel, changing theme, opening or closing the About modal), they
\* are equal to their initially built values.
MappingBuiltOnce ==
    /\ builds = 1
    /\ mapping = firstMapping
    /\ reversedMapping = reverseMap(firstMapping)

\* a state after an encode, a copy, a decode, with the mapping panel and
\* the About modal open and a theme selected
AfterManyOperations ==
    /\ lastOp = "decode"
    /\ plainText # <<>>
    /\ encodedFrom # <<>>
    /\ copyStatus = "Emoji copied!"
    /\ showMapping
    /\ isAboutModalOpen
    /\ themeOp = "select"
    /\ theme = themes[3]

\* C15. Frame of encode and decode: handleEncode changes only encodedText
\* and leaves plainText unchanged, handleDecode changes only plainText and
\* leaves encodedText unchanged; when the source field is the empty string
\* the handler sets the target field to the empty string.
EncodeDecodeFrame ==
    [][ /\ handleEncode =>
               /\ UNCHANGED <<plainText, uiVars, theme, storedTheme, mapping, reversedMapping>>
               /\ (plainText = <<>> => encodedText' = <<>>)
        /\ handleDecode =>
               /\ UNCHANGED <<encodedText, uiVars, theme, storedTheme, mapping, reversedMapping>>
               /\ (encodedText = <<>> => plainText' = <<>>)
      ]_vars

\* Encode pressed on an empty plain text, then Decode on the emptied
\* encoded text
EmptySourceHandled ==
    /\ lastOp = "decode"
    /\ encodedFrom = << <<>> >>
    /\ encodedText = <<>>
    /\ plainText = <<>>

\* ------------------------------------------------------------------------
\* Properties of the useTheme hook (SpecTheme)
\* ------------------------------------------------------------------------
\* C16. Theme restore: after any sequence of theme selections and reloads
\* the active theme is an element of the themes list; on load it is the
\* theme whose key equals the value stored under 'emoji-cipher-theme' (the
\* last theme selected, when storage works), and themes[0] when the stored
\* key matches no theme or reading storage throws.
ThemeRestore ==
    /\ \E j \in 1..Len(themes) : theme = themes[j]
    /\ themeOp = "load" =>
           /\ \A j \in 1..Len(themes) :
                  readItem = <<themes[j].key>> => theme = themes[j]
           /\ (\A j \in 1..Len(themes) : readItem # <<themes[j].key>>) =>
                  theme = themes[1]
           /\ readItem = Thrown => theme = themes[1]
           /\ (selectionStored /\ readItem # Thrown) => lastSelected = <<theme.key>>

\* a reload that restored a selected theme other than the first
ThemeRestored ==
    /\ themeOp = "load"
    /\ selectionStored
    /\ readItem = lastSelected
    /\ theme = themes[3]

====
